---- MODULE Spec2Model ----
(***************************************************************************)
(* lazycommit: one invocation of run (cmd/lazycommit/main.go).  The state  *)
(* is the options of the invocation, the position of run, its locals       *)
(* (hash, msgs, msg), and what it has done to the outside world: the git   *)
(* processes it executed, the completion streams it created, the lines it  *)
(* printed and the error it returned.                                      *)
(* Strings that the code inspects character by character (git arguments,   *)
(* the streamed commit message) are sequences of one-character strings.    *)
(* Prompt contents are sequences of lines.                                 *)
(***************************************************************************)
EXTENDS Integers, Sequences, FiniteSets, TLC

----------------------------------------------------------------------------
(* Bounds *)

MaxContext == 3      \* at most this many --context strings
MaxFiles == 2        \* at most this many changed files in the repository
MaxChunks == 3       \* at most this many content chunks on one stream

----------------------------------------------------------------------------
(* Generic helpers *)

SeqsUpTo(S, n) == UNION {[1..k -> S] : k \in 0..n}

Range(s) == {s[i] : i \in 1..Len(s)}

RECURSIVE Flatten(_)
Flatten(ss) == IF ss = <<>> THEN <<>> ELSE Head(ss) \o Flatten(Tail(ss))

RECURSIVE SumSeq(_)
SumSeq(ns) == IF ns = <<>> THEN 0 ELSE Head(ns) + SumSeq(Tail(ns))

HasPrefix(s, p) == Len(s) >= Len(p) /\ SubSeq(s, 1, Len(p)) = p

HasSuffix(s, p) == Len(s) >= Len(p) /\ SubSeq(s, Len(s) - Len(p) + 1, Len(s)) = p

TrimPrefix(s, p) == IF HasPrefix(s, p) THEN SubSeq(s, Len(p) + 1, Len(s)) ELSE s

TrimSuffix(s, p) == IF HasSuffix(s, p) THEN SubSeq(s, 1, Len(s) - Len(p)) ELSE s

WhiteSpace == {" ", "\n", "\t", "\r"}

RECURSIVE TrimLeft(_)
TrimLeft(s) ==
  IF s # <<>> /\ Head(s) \in WhiteSpace THEN TrimLeft(Tail(s)) ELSE s

RECURSIVE TrimRight(_)
TrimRight(s) ==
  IF s # <<>> /\ s[Len(s)] \in WhiteSpace
    THEN TrimRight(SubSeq(s, 1, Len(s) - 1)) ELSE s

TrimSpace(s) == TrimRight(TrimLeft(s))

----------------------------------------------------------------------------
(* Errors: the text an error adds in front of the error it wraps, and the  *)
(* innermost error.                                                        *)

NoError == [prefix |-> <<>>, cause |-> "nil"]

NewError(text) == [prefix |-> <<>>, cause |-> text]

ErrRefAndAmend == NewError("cannot use both [ref] and --amend")

GetwdErrors == {NewError("getwd: no such file or directory")}

GitErrors == {NewError("exit status 128")}

TransportErrors == {NewError("unexpected status 500")}

CommitErrors == {NewError("exit status 1")}

WrapResolveErr_Unwrapped(ref, e) == e

\* fmt.Errorf("resolve ref %q: %w", opts.ref, err)
WrapResolveErr(ref, e) ==
  [prefix |-> <<"r","e","s","o","l","v","e"," ","r","e","f"," ","\"">>
                \o ref \o <<"\"",":"," ">> \o e.prefix,
   cause |-> e.cause]

----------------------------------------------------------------------------
(* Chat messages and the prompt compiler.  BuildPrompt is called by run    *)
(* (main.go:87) and lives outside cmd/lazycommit; it is modelled from the  *)
(* design document: sections 4.2 (Token Estimator) and 4.3 (Prompt         *)
(* Compiler).                                                              *)

ChatMessageRoleSystem == "system"

ChatMessageRoleUser == "user"

Message(role, content) == [Role |-> role, Content |-> content]

\* Token Estimator: proportional to the number of lines of the text.
Estimate(content) == Len(content) * 16000

TotalCost(ms) == SumSeq([i \in 1..Len(ms) |-> Estimate(ms[i].Content)])

SystemPrompt == <<"write a concise conventional commit message">>

OmittedMarker == <<"diff omitted: exceeds budget">>

\* File i of the repository: its path and its diff body, a sequence of lines.
FileChange(i) ==
  [path |-> i,
   diff |-> IF i % 2 = 1 THEN <<"+line">> ELSE <<"-old", "+new", " ctx">>]

RECURSIVE SetToSeq(_)
SetToSeq(S) ==
  IF S = {} THEN <<>>
  ELSE LET m == CHOOSE x \in S : \A y \in S : x <= y
       IN <<FileChange(m)>> \o SetToSeq(S \ {m})

\* Change Collector: the changed files of the target, in path order.
ChangeSets == {SetToSeq(S) : S \in SUBSET (1..MaxFiles)}

NoChangesError == NewError("no changes")

BudgetTooSmallError == NewError("budget too small")

\* Step 2: one line per file; oldest-listed files are dropped, and a marker
\* line added, until the list fits.
RECURSIVE FileList(_, _, _)
FileList(files, dropped, remaining) ==
  LET lines == [i \in 1..Len(files) |-> "changed file"]
      all == IF dropped = 0 THEN lines ELSE lines \o <<"and more files">>
  IN IF Estimate(all) <= remaining THEN all
     ELSE IF files = <<>> THEN <<>>
     ELSE FileList(Tail(files), dropped + 1, remaining)

\* Step 3: diff bodies in collection order; a body that does not fit is
\* replaced by the one-line marker, or left out when the marker does not fit.
RECURSIVE DiffContent(_, _)
DiffContent(files, remaining) ==
  IF files = <<>> THEN <<>>
  ELSE LET body == Head(files).diff
           part == IF Estimate(body) <= remaining THEN body
                   ELSE IF Estimate(OmittedMarker) <= remaining THEN OmittedMarker
                   ELSE <<>>
       IN part \o DiffContent(Tail(files), remaining - Estimate(part))

BuildPrompt(changeSet, budget) ==
  IF changeSet = <<>> THEN [msgs |-> <<>>, err |-> NoChangesError]
  ELSE IF budget < Estimate(SystemPrompt)
    THEN [msgs |-> <<>>, err |-> BudgetTooSmallError]
  ELSE LET r1 == budget - Estimate(SystemPrompt)
           list == FileList(changeSet, 0, r1)
           r2 == r1 - Estimate(list)
           diffs == DiffContent(changeSet, r2)
       IN [msgs |-> <<Message(ChatMessageRoleSystem, SystemPrompt)>>
                    \o (IF list = <<>> THEN <<>>
                        ELSE <<Message(ChatMessageRoleSystem, list)>>)
                    \o (IF diffs = <<>> THEN <<>>
                        ELSE <<Message(ChatMessageRoleUser, diffs)>>),
           err |-> NoError]

----------------------------------------------------------------------------
(* The pieces of run that are pure. *)

Budget == 128000

ContextHeader ==
  <<"The user has provided additional context that MUST be included in the commit message">>

AppendContext_UserOnly(ms, context) ==
  ms \o [i \in 1..Len(context) |-> Message(ChatMessageRoleUser, context[i])]

\* main.go:92-103
AppendContext(ms, context) ==
  IF Len(context) > 0
    THEN ms \o <<Message(ChatMessageRoleSystem, ContextHeader)>>
            \o [i \in 1..Len(context) |-> Message(ChatMessageRoleUser, context[i])]
    ELSE ms

\* The character U+0060 (grave accent), which cannot be written in a string here.
Backtick == "U+0060"

Fence == <<Backtick, Backtick, Backtick>>

\* cleanAIMessage: defined beside run, called nowhere.
cleanAIMessage(m) ==
  LET unfenced == IF HasPrefix(m, Fence)
                    THEN TrimPrefix(TrimSuffix(m, Fence), Fence)
                    ELSE m
  IN TrimSpace(unfenced)

GitPath == <<"/", "u", "s", "r", "/", "b", "i", "n", "/", "g", "i", "t">>

ArgGit == <<"g", "i", "t">>

ArgRevParse == <<"r", "e", "v", "-", "p", "a", "r", "s", "e">>

ArgHEAD == <<"H", "E", "A", "D">>

ArgCommit == <<"c", "o", "m", "m", "i", "t">>

ArgM == <<"-", "m">>

ArgAmend == <<"-", "-", "a", "m", "e", "n", "d">>

CommitArgs_NeverAmend(amend, m) == <<ArgGit, ArgCommit, ArgM, m>>

\* main.go:141-144
CommitArgs(amend, m) ==
  <<ArgGit, ArgCommit, ArgM, m>> \o (IF amend THEN <<ArgAmend>> ELSE <<>>)

\* filepath.Base: what follows the last separator.
RECURSIVE Base(_)
Base(path) ==
  IF \E i \in 1..Len(path) : path[i] = "/"
    THEN Base(Tail(path))
    ELSE path

\* Characters shellescape.Quote leaves alone: [\w@%+=:,./-]
SafeChars ==
  {"a", "b", "c", "d", "e", "g", "i", "m", "n", "o", "s", "t", "u", "r",
   "H", "E", "A", "D", "1", "_", "@", "%", "+", "=", ":", ",", ".", "/", "-"}

RECURSIVE EscapeQuotes(_)
EscapeQuotes(s) ==
  IF s = <<>> THEN <<>>
  ELSE (IF Head(s) = "'" THEN <<"'", "\"", "'", "\"", "'">> ELSE <<Head(s)>>)
       \o EscapeQuotes(Tail(s))

\* shellescape.Quote, called at main.go:59
Quote(s) ==
  IF s = <<>> THEN <<"'", "'">>
  ELSE IF \E i \in 1..Len(s) : s[i] \notin SafeChars
    THEN <<"'">> \o EscapeQuotes(s) \o <<"'">>
  ELSE s

RECURSIVE QuoteArgs(_)
QuoteArgs(args) ==
  IF args = <<>> THEN <<>>
  ELSE <<" ">> \o Quote(Head(args)) \o QuoteArgs(Tail(args))

\* main.go:54-62
formatShellCommand(path, args) == Base(path) \o QuoteArgs(Tail(args))

----------------------------------------------------------------------------
(* The invocation. *)

VARIABLES
  opts,      \* runOptions: dryRun, amend, ref, context
  pc,        \* where run is: start, resolve, build, create, recv, commit, done
  hash,      \* run's local hash
  prompt,    \* what BuildPrompt returned at main.go:87
  msgs,      \* run's local msgs
  sent,      \* Messages of the completion request, once issued
  streams,   \* number of CreateChatCompletionStream calls
  recvd,     \* content chunks received on the stream, in order
  msg,       \* run's buffer msg
  gitCalls,  \* argument lists of the git processes run has executed
  stdout,    \* what run has written to os.Stdout
  raisedBy,  \* the call that produced an error, "none" when none did
  raised,    \* the error that call produced
  err        \* the error run returned (NoError while running or on success)

vars == <<opts, pc, hash, prompt, msgs, sent, streams, recvd, msg, gitCalls,
          stdout, raisedBy, raised, err>>

Refs == {<<>>, <<"r", "1">>}

ContextStrings == {<<"hint">>, <<"long hint 1", "long hint 2", "long hint 3">>}

RevParseOutputs == {<<"a", "1", "\n">>}

Chunks == {Fence, <<" ">>, <<"a">>}

BannerLine ==
  <<"R","u","n"," ","t","h","e"," ","f","o","l","l","o","w","i","n","g"," ",
    "c","o","m","m","a","n","d"," ","t","o"," ","c","o","m","m","i","t",":","\n">>

Init ==
  /\ opts \in [dryRun : BOOLEAN, amend : BOOLEAN, ref : Refs,
               context : SeqsUpTo(ContextStrings, MaxContext)]
  /\ pc = "start"
  /\ hash = <<>>
  /\ prompt = <<>>
  /\ msgs = <<>>
  /\ sent = <<>>
  /\ streams = 0
  /\ recvd = <<>>
  /\ msg = <<>>
  /\ gitCalls = <<>>
  /\ stdout = <<>>
  /\ raisedBy = "none"
  /\ raised = NoError
  /\ err = NoError

\* return e, where e is the error the call `by` produced as `cause`
Return(by, cause, e) ==
  /\ pc' = "done"
  /\ raisedBy' = by
  /\ raised' = cause
  /\ err' = e

Start_NoRefAmendCheck ==
  /\ pc = "start"
  /\ \/ /\ \E e \in GetwdErrors : Return("Getwd", e, e)
     \/ /\ pc' = "resolve"
        /\ UNCHANGED <<raisedBy, raised, err>>
  /\ UNCHANGED <<opts, hash, prompt, msgs, sent, streams, recvd, msg, gitCalls, stdout>>

\* main.go:65-72
Start ==
  /\ pc = "start"
  /\ \/ \E e \in GetwdErrors : Return("Getwd", e, e)
     \/ /\ opts.ref # <<>> /\ opts.amend
        /\ Return("run", ErrRefAndAmend, ErrRefAndAmend)
     \/ /\ ~(opts.ref # <<>> /\ opts.amend)
        /\ pc' = "resolve"
        /\ UNCHANGED <<raisedBy, raised, err>>
  /\ UNCHANGED <<opts, hash, prompt, msgs, sent, streams, recvd, msg, gitCalls, stdout>>

\* main.go:74-85, with getLastCommitHash (36-43) and resolveRef (45-52)
ResolveTarget ==
  /\ pc = "resolve"
  /\ IF opts.amend
       THEN /\ gitCalls' = Append(gitCalls, <<ArgGit, ArgRevParse, ArgHEAD>>)
            /\ \/ /\ \E e \in GitErrors : Return("getLastCommitHash", e, e)
                  /\ UNCHANGED hash
               \/ /\ \E out \in RevParseOutputs : hash' = TrimSpace(out)
                  /\ pc' = "build"
                  /\ UNCHANGED <<raisedBy, raised, err>>
       ELSE IF opts.ref # <<>>
       THEN /\ gitCalls' = Append(gitCalls, <<ArgGit, ArgRevParse, opts.ref>>)
            /\ \/ /\ \E e \in GitErrors :
                       Return("resolveRef", e, WrapResolveErr(opts.ref, e))
                  /\ UNCHANGED hash
               \/ /\ \E out \in RevParseOutputs : hash' = TrimSpace(out)
                  /\ pc' = "build"
                  /\ UNCHANGED <<raisedBy, raised, err>>
       ELSE /\ pc' = "build"
            /\ UNCHANGED <<hash, gitCalls, raisedBy, raised, err>>
  /\ UNCHANGED <<opts, prompt, msgs, sent, streams, recvd, msg, stdout>>

Build_IgnoresError ==
  /\ pc = "build"
  /\ \E cs \in ChangeSets :
       LET r == BuildPrompt(cs, Budget)
       IN /\ prompt' = r.msgs
          /\ msgs' = AppendContext(r.msgs, opts.context)
          /\ pc' = "create"
          /\ raisedBy' = IF r.err # NoError THEN "BuildPrompt" ELSE raisedBy
          /\ raised' = IF r.err # NoError THEN r.err ELSE raised
          /\ UNCHANGED err
  /\ UNCHANGED <<opts, hash, sent, streams, recvd, msg, gitCalls, stdout>>

\* main.go:87-103
Build ==
  /\ pc = "build"
  /\ \E cs \in ChangeSets :
       LET r == BuildPrompt(cs, Budget)
       IN IF r.err # NoError
            THEN /\ Return("BuildPrompt", r.err, r.err)
                 /\ UNCHANGED <<prompt, msgs>>
            ELSE /\ prompt' = r.msgs
                 /\ msgs' = AppendContext(r.msgs, opts.context)
                 /\ pc' = "create"
                 /\ UNCHANGED <<raisedBy, raised, err>>
  /\ UNCHANGED <<opts, hash, sent, streams, recvd, msg, gitCalls, stdout>>

\* main.go:105-118
CreateStream ==
  /\ pc = "create"
  /\ streams' = streams + 1
  /\ sent' = msgs
  /\ \/ \E e \in TransportErrors : Return("CreateChatCompletionStream", e, e)
     \/ /\ pc' = "recv"
        /\ UNCHANGED <<raisedBy, raised, err>>
  /\ UNCHANGED <<opts, hash, prompt, msgs, recvd, msg, gitCalls, stdout>>

Recv_ErrorEndsStream ==
  /\ pc = "recv"
  /\ \/ /\ \E e \in TransportErrors :
             /\ raisedBy' = "Recv"
             /\ raised' = e
        /\ pc' = "commit"
        /\ UNCHANGED <<recvd, msg, stdout, err>>
     \/ /\ pc' = "commit"
        /\ UNCHANGED <<recvd, msg, stdout, raisedBy, raised, err>>
     \/ /\ Len(recvd) < MaxChunks
        /\ \E c \in Chunks :
             /\ recvd' = Append(recvd, c)
             /\ msg' = msg \o c
             /\ stdout' = Append(stdout, c)
        /\ UNCHANGED <<pc, raisedBy, raised, err>>
  /\ UNCHANGED <<opts, hash, prompt, msgs, sent, streams, gitCalls>>

\* main.go:123-138, one iteration of the loop
Recv ==
  /\ pc = "recv"
  /\ \/ /\ \E e \in TransportErrors : Return("Recv", e, e)
        /\ UNCHANGED <<recvd, msg, stdout>>
     \/ \* io.EOF, or a response with no choices
        /\ pc' = "commit"
        /\ UNCHANGED <<recvd, msg, stdout, raisedBy, raised, err>>
     \/ /\ Len(recvd) < MaxChunks
        /\ \E c \in Chunks :
             /\ recvd' = Append(recvd, c)
             /\ msg' = msg \o c
             /\ stdout' = Append(stdout, c)
        /\ UNCHANGED <<pc, raisedBy, raised, err>>
  /\ UNCHANGED <<opts, hash, prompt, msgs, sent, streams, gitCalls>>

Finish_IgnoresDryRun ==
  /\ pc = "commit"
  /\ LET args == CommitArgs(opts.amend, msg)
     IN /\ stdout' = Append(stdout, <<"\n">>)
        /\ gitCalls' = Append(gitCalls, args)
        /\ \/ Return("none", NoError, NoError)
           \/ \E e \in CommitErrors : Return("git commit", e, e)
  /\ UNCHANGED <<opts, hash, prompt, msgs, sent, streams, recvd, msg>>

\* main.go:139-155
Finish ==
  /\ pc = "commit"
  /\ LET args == CommitArgs(opts.amend, msg)
     IN IF opts.dryRun
          THEN /\ stdout' = stdout \o <<<<"\n">>, BannerLine,
                                        formatShellCommand(GitPath, args) \o <<"\n">>>>
               /\ Return("none", NoError, NoError)
               /\ UNCHANGED gitCalls
          ELSE /\ stdout' = Append(stdout, <<"\n">>)
               /\ gitCalls' = Append(gitCalls, args)
               /\ \/ Return("none", NoError, NoError)
                  \/ \E e \in CommitErrors : Return("git commit", e, e)
  /\ UNCHANGED <<opts, hash, prompt, msgs, sent, streams, recvd, msg>>

Next ==
  \/ Start
  \/ ResolveTarget
  \/ Build
  \/ CreateStream
  \/ Recv
  \/ Finish

Spec == Init /\ [][Next]_vars

----------------------------------------------------------------------------
(* Properties *)

Returned == pc = "done"

RequestIssued == streams > 0

IsCommit(args) == Len(args) >= 2 /\ args[2] = ArgCommit

CommitCalls == SelectSeq(gitCalls, IsCommit)

\* The part of the request that run appended for opts.context
Appended == SubSeq(sent, Len(prompt) + 1, Len(sent))

ContextSent == SelectSeq(Appended, LAMBDA m : m.Role = ChatMessageRoleUser)

\* run records no warning anywhere (main.go:92-103 report nothing)
Warnings == <<>>

\* The context strings that fit, in order, when each is taken whole or not at all
RECURSIVE Fitting(_, _)
Fitting(context, remaining) ==
  IF context = <<>> THEN <<>>
  ELSE IF Estimate(Head(context)) <= remaining
    THEN <<Head(context)>> \o Fitting(Tail(context), remaining - Estimate(Head(context)))
    ELSE Fitting(Tail(context), remaining)

RemainingForContext ==
  Budget - TotalCost(sent) + TotalCost(ContextSent)

\* C1: the message list handed to the completion transport costs at most
\* the budget of 128000 estimated tokens.
C1_SentWithinBudget == RequestIssued => TotalCost(sent) <= Budget

\* C2: a context string that does not fit in the remaining budget is left out
\* whole and a warning is recorded for it: the context messages sent are
\* exactly the strings that fit, and there is one warning per dropped string.
C2_UnfitContextDropped ==
  RequestIssued =>
    /\ [i \in 1..Len(ContextSent) |-> ContextSent[i].Content]
         = Fitting(opts.context, RemainingForContext)
    /\ Len(Warnings) = Len(opts.context) - Len(ContextSent)

\* C3: in the message list sent, every system message precedes every user
\* message.
C3_SystemBeforeUser ==
  RequestIssued =>
    \A i, j \in 1..Len(sent) :
      (sent[i].Role = ChatMessageRoleSystem /\ sent[j].Role = ChatMessageRoleUser)
        => i < j

\* C4: when getLastCommitHash, resolveRef or BuildPrompt fails, run has
\* returned an error, no completion request was issued and no git commit ran.
C4_CoreFailureStopsRun ==
  raisedBy \in {"getLastCommitHash", "resolveRef", "BuildPrompt"} =>
    /\ Returned
    /\ err # NoError
    /\ streams = 0
    /\ sent = <<>>
    /\ CommitCalls = <<>>

C4_Witness ==
  /\ Returned
  /\ raisedBy = "BuildPrompt"
  /\ opts.context # <<>>

\* C5: the message given to git commit is the concatenation of the received
\* chunks with code fences stripped and surrounding whitespace trimmed.
C5_CommitMessageCleaned ==
  \A i \in 1..Len(CommitCalls) :
    CommitCalls[i][4] = cleanAIMessage(Flatten(recvd))

\* C6: git commit carries --amend exactly when the amend target was selected.
C6_AmendIffSelected ==
  \A i \in 1..Len(CommitCalls) :
    LET args == CommitCalls[i]
    IN IF opts.amend
         THEN Len(args) = 5 /\ args[5] = ArgAmend
         ELSE Len(args) = 4 /\ ArgAmend \notin Range(args)

C6_Witness ==
  /\ Returned
  /\ opts.amend
  /\ Len(CommitCalls) = 1
  /\ recvd # <<>>

\* C7 as stated: the error run returns after getLastCommitHash, resolveRef or
\* BuildPrompt failed is that very error.
C7_ErrorUnchanged ==
  (Returned /\ raisedBy \in {"getLastCommitHash", "resolveRef", "BuildPrompt"})
    => err = raised

\* C7 amended: the error of getLastCommitHash or BuildPrompt is returned as
\* it is; the error of resolveRef is returned with the text
\* resolve ref "<ref>": put in front of it.
C7_ErrorUnchangedOrRefWrapped ==
  /\ (Returned /\ raisedBy \in {"getLastCommitHash", "BuildPrompt"}) => err = raised
  /\ (Returned /\ raisedBy = "resolveRef") =>
       /\ err.cause = raised.cause
       /\ err.prefix = <<"r","e","s","o","l","v","e"," ","r","e","f"," ","\"">>
                         \o opts.ref \o <<"\"",":"," ">> \o raised.prefix
       /\ err # raised

C7_Witness == Returned /\ raisedBy = "resolveRef"

\* C8: the stream is created at most once, and when creating it or a receive
\* fails, run has returned that error and no git commit ran, whatever was
\* received before.
C8_NoRetry ==
  /\ streams <= 1
  /\ raisedBy \in {"CreateChatCompletionStream", "Recv"} =>
       /\ Returned
       /\ err = raised
       /\ err # NoError
       /\ streams = 1
       /\ CommitCalls = <<>>

C8_Witness ==
  /\ Returned
  /\ raisedBy = "Recv"
  /\ recvd # <<>>
  /\ ~opts.dryRun

\* How a message over the streamed alphabet is written in a shell command
ShellWord(m) ==
  IF m = <<>> THEN <<"'", "'">>
  ELSE IF \A i \in 1..Len(m) : m[i] = "a" THEN m
  ELSE <<"'">> \o m \o <<"'">>

\* C9: with dry-run set no git commit runs; once the stream has ended run
\* prints git commit -m <message>, shell-escaped, with --amend when amend is
\* set, and returns no error.
C9_DryRunNeverCommits ==
  opts.dryRun =>
    /\ CommitCalls = <<>>
    /\ (Returned /\ raisedBy = "none") =>
         /\ err = NoError
         /\ Len(stdout) = Len(recvd) + 3
         /\ stdout[Len(stdout) - 1] = BannerLine
         /\ stdout[Len(stdout)] =
              <<"g","i","t"," ","c","o","m","m","i","t"," ","-","m"," ">>
                \o ShellWord(msg)
                \o (IF opts.amend THEN <<" ","-","-","a","m","e","n","d">> ELSE <<>>)
                \o <<"\n">>

C9_Witness ==
  /\ opts.dryRun
  /\ opts.amend
  /\ Returned
  /\ raisedBy = "none"
  /\ Len(recvd) >= 2

\* C10 as stated: with both a ref and --amend, run returns the error
\* "cannot use both [ref] and --amend", with no git command, no prompt, no
\* completion request and no commit.
C10_RefAndAmendRejected ==
  (opts.ref # <<>> /\ opts.amend /\ Returned) =>
    /\ err = ErrRefAndAmend
    /\ gitCalls = <<>>
    /\ prompt = <<>>
    /\ streams = 0

\* C10 amended: with both a ref and --amend, run never invokes git, builds a
\* prompt, issues a completion request or commits, and the error it returns
\* is "cannot use both [ref] and --amend" unless os.Getwd failed first, when
\* it is the error of os.Getwd.
C10_RefAndAmendRejectedAfterGetwd ==
  (opts.ref # <<>> /\ opts.amend) =>
    /\ gitCalls = <<>>
    /\ prompt = <<>>
    /\ msgs = <<>>
    /\ streams = 0
    /\ pc \in {"start", "done"}
    /\ Returned =>
         \/ raisedBy = "run" /\ err = ErrRefAndAmend
         \/ raisedBy = "Getwd" /\ err = raised /\ err \in GetwdErrors

C10_Witness ==
  /\ opts.ref # <<>>
  /\ opts.amend
  /\ Returned
  /\ err = ErrRefAndAmend

====
